---- MODULE Spec2Model ----
(***************************************************************************)
(* Library Management System (LIBRARYMANAGEMENTSYSTEM.py).                 *)
(*                                                                         *)
(* The program is a set of functions over three tables of a shared store   *)
(* (members, books, borrow_records).  Every `.execute()` is one round trip *)
(* to the store and is the unit of atomicity: a function that makes        *)
(* several round trips can be interleaved with the round trips of other    *)
(* callers (other CLI instances) between any two of them, and any round    *)
(* trip can raise.                                                         *)
(***************************************************************************)
EXTENDS Integers, Sequences, FiniteSets, TLC

\* ---------------------------------------------------------------- bounds
NProcs == 2        \* concurrent callers of the store
NBooks == 2        \* book_id values
NMembers == 1      \* member_id values
MaxRecords == 2    \* borrow_records rows ever inserted by concurrent callers
SeqRecords == 1    \* borrow_records rows ever inserted by a single caller
MaxInitStock == 1  \* largest stock a book starts with
MaxKeywordLen == 2 \* longest keyword given to search_books
ClockStep == 7     \* days between two readings of the clock
MaxDay == 22       \* last day the clock reaches

Procs == 1..NProcs
Books == 1..NBooks
Members == 1..NMembers
RecordIds == 1..MaxRecords

\* the caller, where one process runs alone
Caller == CHOOSE p \in Procs : TRUE

\* return_date of a row that was never returned (SQL NULL / Python None)
NoDate == 0

\* line 115: timedelta(days=14)
OverdueDays == 14

VARIABLES
    members,         \* table members: the member_id values present
    books,           \* table books: book_id -> stock, for the rows present
    borrow_records,  \* table borrow_records: row record_id is borrow_records[record_id]
    now,             \* the clock (datetime.utcnow(), the store's default borrow_date)
    pc,              \* per caller: the store call it makes next, or "idle"
    frame,           \* per caller: arguments and locals of the call it is in
    last,            \* what the call that ended in the latest step returned (or that it
                     \* raised); "none" when the latest step ended no call
    returned,        \* history: the records some return_book call reported returned
    held,            \* history: per caller, the record its preceding borrow returned
                     \* and the stock that borrow found
    stock0,          \* history: book_id -> the stock the book started with
    texts,           \* table books, the text columns: book_id -> title, author, category
    running          \* the CLI's `while True` loop is still running

vars == <<members, books, borrow_records, now, pc, frame, last, returned, held, stock0,
          texts, running>>

\* ------------------------------------------------------------ call frames
NoFrame == [op |-> "none", member_id |-> 0, book_id |-> 0, record_id |-> 0, stock |-> 0]
NoHeld == [rec |-> 0, pre |-> 0]

\* what a call hands back: {"error": ...}, {"success": ...}, the rows of a delete,
\* or an exception that leaves the function
Returns(tag, value) == [tag |-> tag, value |-> value]

\* borrow_book(member_id, book_id): `book` is the row read at line 73
BorrowFrame(m, b) ==
    [op |-> "borrow", member_id |-> m, book_id |-> b, record_id |-> 0,
     stock |-> IF b \in DOMAIN books THEN books[b] ELSE 0]

\* return_book(record_id): `record` is the row read at line 89
ReturnFrame(r) ==
    [op |-> "return",
     member_id |-> IF r \in DOMAIN borrow_records THEN borrow_records[r].member_id ELSE 0,
     book_id |-> IF r \in DOMAIN borrow_records THEN borrow_records[r].book_id ELSE 0,
     record_id |-> r, stock |-> 0]

DeleteMemberFrame(m) ==
    [op |-> "delete_member", member_id |-> m, book_id |-> 0, record_id |-> 0, stock |-> 0]

DeleteBookFrame(b) ==
    [op |-> "delete_book", member_id |-> 0, book_id |-> b, record_id |-> 0, stock |-> 0]

\* -------------------------------------------------------------- queries
\* .is_("return_date", None)
IsOpen(rec) == rec.return_date = NoDate

\* the check of line 93 left out
IsReturned_Unchecked(rec) == FALSE

\* line 93: if record.get("return_date")
IsReturned(rec) == rec.return_date # NoDate

\* the query of lines 27 and 44 without its .is_("return_date", None)
Borrowed_AnyRecord(field, id) ==
    {r \in DOMAIN borrow_records : borrow_records[r][field] = id}

\* lines 27 and 44: select * from borrow_records where <field> = id and return_date is null
Borrowed(field, id) ==
    {r \in DOMAIN borrow_records :
        borrow_records[r][field] = id /\ IsOpen(borrow_records[r])}

\* the filter of line 119 with <= for <
IsOverdue_Inclusive(rec) == IsOpen(rec) /\ rec.borrow_date <= now - OverdueDays

\* lines 115-119: return_date is null and borrow_date < utcnow() - 14 days
IsOverdue(rec) == IsOpen(rec) /\ rec.borrow_date < now - OverdueDays

\* lines 116-120: the overdue rows, in record_id order
OverdueRows ==
    SelectSeq([i \in 1..Len(borrow_records) |-> i],
              LAMBDA r : IsOverdue(borrow_records[r]))

\* the rows of borrow_records, open or closed, with this member or book
LoanCount(field, id) ==
    Cardinality({r \in DOMAIN borrow_records : borrow_records[r][field] = id})

\* rpc("top_books"): the books by their number of records, most borrowed
\* first, ties by book_id
TopBooks ==
    SortSeq(SelectSeq([i \in 1..NBooks |-> i], LAMBDA b : b \in DOMAIN books),
            LAMBDA a, b : \/ LoanCount("book_id", a) > LoanCount("book_id", b)
                          \/ /\ LoanCount("book_id", a) = LoanCount("book_id", b)
                             /\ a < b)

\* rpc("member_borrow_count"): member_id and number of records, per member
MemberBorrowCount ==
    [i \in 1..NMembers |-> <<i, LoanCount("member_id", i)>>]

\* the test of line 75 with < for <=
Available_AtZero(b) == b \in DOMAIN books /\ books[b] >= 0

\* line 75: not (not book or book.get("stock", 0) <= 0)
Available(b) == b \in DOMAIN books /\ books[b] > 0

\* line 79 writing the stock it read
DecrementedStock_Same(s) == s

\* line 79: book["stock"] - 1
DecrementedStock(s) == s - 1

\* line 100 adding two
IncrementedStock_Twice(s) == s + 2

\* line 100: book.get("stock", 0) + 1
IncrementedStock(s) == s + 1

\* .update({"stock": s}).eq("book_id", b): rewrites the row if it is there
UpdateStock(b, s) ==
    IF b \in DOMAIN books THEN [books EXCEPT ![b] = s] ELSE books

\* borrows past their stock check that have not inserted their row yet
InFlightBorrows == Cardinality({p \in Procs : pc[p] \in {"borrow_update", "borrow_insert"}})

\* a borrow of book b that would go on to insert a row is started only while
\* fewer than n rows are inserted or about to be
Room(b, n) == Available(b) => Len(borrow_records) + InFlightBorrows < n

\* -------------------------------------------------------------- strings
\* a string is the sequence of its characters
Chars == {"a", "A", "b", "_", "%", " "}
Strings(n) == UNION {[1..k -> Chars] : k \in 0..n}
Keywords == Strings(MaxKeywordLen)

\* the values the text columns of a book take
Texts == {<<"A", "b">>, <<"a">>}

\* what the user types at a prompt that main() passes to int()
Typed == {<<"1">>, <<"-", "1">>, <<"x">>, <<>>}

\* what the user types at a prompt for a name, an email, a title, an author
\* or a category
Words == {<<"x">>}

\* int(str): an optional sign and decimal digits, ValueError otherwise
Digits == {"0", "1", "2"}

IsNumeral(str) ==
    LET digits == IF str # <<>> /\ Head(str) = "-" THEN Tail(str) ELSE str
    IN  digits # <<>> /\ \A i \in DOMAIN digits : digits[i] \in Digits

Digit(c) == IF c = "0" THEN 0 ELSE IF c = "1" THEN 1 ELSE 2

RECURSIVE Decimal(_)
Decimal(digits) ==
    IF digits = <<>> THEN 0
    ELSE 10 * Decimal(SubSeq(digits, 1, Len(digits) - 1)) + Digit(digits[Len(digits)])

IntOf(str) == IF Head(str) = "-" THEN 0 - Decimal(Tail(str)) ELSE Decimal(str)

\* a book row whose text columns are empty strings
Untitled == [title |-> <<>>, author |-> <<>>, category |-> <<>>]

Range(seq) == {seq[i] : i \in DOMAIN seq}

\* str.strip() (line 52): leading and trailing whitespace removed
RECURSIVE LStrip(_)
LStrip(str) ==
    IF str # <<>> /\ Head(str) = " " THEN LStrip(Tail(str)) ELSE str

RECURSIVE RStrip(_)
RStrip(str) ==
    IF str # <<>> /\ str[Len(str)] = " "
    THEN RStrip(SubSeq(str, 1, Len(str) - 1)) ELSE str

Strip(str) == RStrip(LStrip(str))

\* case folding of ILIKE
Lower(c) == IF c = "A" THEN "a" ELSE c

\* line 60: f"%{keyword}%", the keyword put into the pattern as it is
Pattern(keyword) == <<"%">> \o keyword \o <<"%">>

\* .ilike(field, pattern): SQL ILIKE, `%` matches any run of characters, `_`
\* any one character, every other character itself, case-insensitively
RECURSIVE ILike(_, _)
ILike(str, pattern) ==
    IF pattern = <<>> THEN str = <<>>
    ELSE IF Head(pattern) = "%"
         THEN \/ ILike(str, Tail(pattern))
              \/ str # <<>> /\ ILike(Tail(str), pattern)
    ELSE /\ str # <<>>
         /\ Head(pattern) = "_" \/ Lower(Head(pattern)) = Lower(Head(str))
         /\ ILike(Tail(str), Tail(pattern))

\* line 60: select * from books where <field> ilike pattern, in book_id order
Rows(field, keyword) ==
    SelectSeq([i \in 1..NBooks |-> i],
              LAMBDA b : b \in DOMAIN texts /\ ILike(texts[b][field], Pattern(keyword)))

\* lines 62-66: append the rows whose book_id was not seen yet
Collected(results, rows) ==
    results \o SelectSeq(rows, LAMBDA b : b \notin Range(results))

\* search_books(keyword): keyword is the stripped keyword, results the rows
\* collected so far (by book_id)
SearchFrame(keyword, results) ==
    [op |-> "search", member_id |-> 0, book_id |-> 0, record_id |-> 0, stock |-> 0,
     keyword |-> keyword, results |-> results]

\* ----------------------------------------------------------------- Init
Start ==
    /\ members = Members
    /\ books \in {[b \in Books |-> s] : s \in 0..MaxInitStock}
    /\ stock0 = books
    /\ borrow_records = <<>>
    /\ now = 1
    /\ pc = [p \in Procs |-> "idle"]
    /\ frame = [p \in Procs |-> NoFrame]
    /\ last = Returns("none", 0)
    /\ returned = {}
    /\ held = [p \in Procs |-> NoHeld]
    /\ running = TRUE

\* the store as the functions on stock and records find it
Init == Start /\ texts = [b \in Books |-> Untitled]

\* the store as search_books finds it: books with text in their columns
InitSearch ==
    Start /\ texts \in [Books -> [title : Texts, author : Texts, category : Texts]]

\* a call ends: its frame is gone, the caller has what it returned
Ends(p, tag, value) ==
    /\ pc' = [pc EXCEPT ![p] = "idle"]
    /\ frame' = [frame EXCEPT ![p] = NoFrame]
    /\ last' = Returns(tag, value)

\* a call goes on to its next store call
Goes(p, f, to) ==
    /\ pc' = [pc EXCEPT ![p] = to]
    /\ frame' = [frame EXCEPT ![p] = f]
    /\ last' = Returns("none", 0)

\* ---------------------------------------------------------- borrow_book
\* borrow_book writing the stock before it tests it
BorrowSelect_WriteFirst(p, m, b) ==
    /\ pc[p] = "idle"
    /\ books' = UpdateStock(b, DecrementedStock(BorrowFrame(m, b).stock))
    /\ IF Available(b)
       THEN Goes(p, BorrowFrame(m, b), "borrow_update")
       ELSE Ends(p, "NotAvailable", 0)
    /\ UNCHANGED <<members, borrow_records, now, stock0, texts>>

\* lines 73-76: read the stock; "Book not available" when no row or stock <= 0
BorrowSelect(p, m, b) ==
    /\ pc[p] = "idle"
    /\ IF Available(b)
       THEN Goes(p, BorrowFrame(m, b), "borrow_update")
       ELSE Ends(p, "NotAvailable", 0)
    /\ UNCHANGED <<members, books, borrow_records, now, stock0, texts>>

\* line 79: write book["stock"] - 1, computed from the value read at line 73
BorrowUpdate(p) ==
    /\ pc[p] = "borrow_update"
    /\ books' = UpdateStock(frame[p].book_id, DecrementedStock(frame[p].stock))
    /\ Goes(p, frame[p], "borrow_insert")
    /\ UNCHANGED <<members, borrow_records, now, stock0, texts>>

\* lines 80-84: insert the borrow record (borrow_date and return_date are the
\* table's defaults) and return it
BorrowInsert(p) ==
    /\ pc[p] = "borrow_insert"
    /\ borrow_records' = Append(borrow_records,
            [member_id |-> frame[p].member_id, book_id |-> frame[p].book_id,
             borrow_date |-> now, return_date |-> NoDate])
    /\ Ends(p, "Borrowed", Len(borrow_records) + 1)
    /\ UNCHANGED <<members, books, now, stock0, texts>>

\* ---------------------------------------------------------- return_book
\* lines 89-94: read the record; "Record not found", "Book already returned"
ReturnSelect(p, r) ==
    /\ pc[p] = "idle"
    /\ IF r \notin DOMAIN borrow_records
       THEN Ends(p, "RecordNotFound", 0)
       ELSE IF IsReturned(borrow_records[r])
       THEN Ends(p, "AlreadyReturned", 0)
       ELSE Goes(p, ReturnFrame(r), "return_close")
    /\ UNCHANGED <<members, books, borrow_records, now, stock0, texts>>

\* line 97 left out: the record is still open when the stock goes up
ReturnClose_Skipped(p) ==
    /\ pc[p] = "return_close"
    /\ Goes(p, frame[p], "return_stock")
    /\ UNCHANGED <<members, books, borrow_records, now, stock0, texts>>

\* line 97: set return_date = utcnow() on the record, whatever it holds by now
ReturnClose(p) ==
    /\ pc[p] = "return_close"
    /\ borrow_records' = [borrow_records EXCEPT ![frame[p].record_id].return_date = now]
    /\ Goes(p, frame[p], "return_stock")
    /\ UNCHANGED <<members, books, now, stock0, texts>>

\* lines 98-99: read the book's stock; {"stock": 0} when there is no row
ReturnStock(p) ==
    /\ pc[p] = "return_stock"
    /\ Goes(p, [frame[p] EXCEPT !.stock =
                    IF frame[p].book_id \in DOMAIN books THEN books[frame[p].book_id] ELSE 0],
            "return_update")
    /\ UNCHANGED <<members, books, borrow_records, now, stock0, texts>>

\* lines 100-101: write stock + 1, computed from the value read at line 98
ReturnUpdate(p) ==
    /\ pc[p] = "return_update"
    /\ books' = UpdateStock(frame[p].book_id, IncrementedStock(frame[p].stock))
    /\ Ends(p, "Returned", 0)
    /\ UNCHANGED <<members, borrow_records, now, stock0, texts>>

\* -------------------------------------------- delete_member / delete_book
\* lines 27-29: refuse when the member has an open borrow record
DeleteMemberCheck(p, m) ==
    /\ pc[p] = "idle"
    /\ IF Borrowed("member_id", m) # {}
       THEN Ends(p, "MemberHasLoans", 0)
       ELSE Goes(p, DeleteMemberFrame(m), "delete_member")
    /\ UNCHANGED <<members, books, borrow_records, now, stock0, texts>>

\* line 30: delete the member row; returns the rows deleted
DeleteMemberDelete(p) ==
    /\ pc[p] = "delete_member"
    /\ members' = members \ {frame[p].member_id}
    /\ Ends(p, "MemberDeleted", 0)
    /\ UNCHANGED <<books, borrow_records, now, stock0, texts>>

\* lines 44-46: refuse when the book has an open borrow record
DeleteBookCheck(p, b) ==
    /\ pc[p] = "idle"
    /\ IF Borrowed("book_id", b) # {}
       THEN Ends(p, "BookHasLoans", 0)
       ELSE Goes(p, DeleteBookFrame(b), "delete_book")
    /\ UNCHANGED <<members, books, borrow_records, now, stock0, texts>>

\* line 47: delete the book row; returns the rows deleted
DeleteBookDelete(p) ==
    /\ pc[p] = "delete_book"
    /\ books' = [b \in DOMAIN books \ {frame[p].book_id} |-> books[b]]
    /\ texts' = [b \in DOMAIN texts \ {frame[p].book_id} |-> texts[b]]
    /\ Ends(p, "BookDeleted", 0)
    /\ UNCHANGED <<members, borrow_records, now, stock0>>

\* ------------------------------------ add_member / update_member (15-23)
\* line 17: insert the member row; the store assigns the member_id.  (The name
\* and email columns are read by no function here and are not kept.)
AddMember(p) ==
    /\ pc[p] = "idle"
    /\ \E id \in Members \ members :
            /\ members' = members \cup {id}
            /\ Ends(p, "MemberAdded", id)
    /\ UNCHANGED <<books, borrow_records, now, stock0, texts>>

\* line 23: update the email of the row with this member_id; returns the rows
\* updated (none when there is no such member)
UpdateMember(p, m) ==
    /\ pc[p] = "idle"
    /\ Ends(p, "MemberUpdated", IF m \in members THEN 1 ELSE 0)
    /\ UNCHANGED <<members, books, borrow_records, now, stock0, texts>>

\* ------------------------------------ add_book / update_book_stock (33-41)
\* lines 34-35: insert the book row with the stock given; the store assigns
\* the book_id
AddBook(p, title, author, category, stock) ==
    /\ pc[p] = "idle"
    /\ \E id \in Books \ DOMAIN books :
            /\ books' = (id :> stock) @@ books
            /\ texts' = (id :> [title |-> title, author |-> author,
                                 category |-> category]) @@ texts
            /\ stock0' = [stock0 EXCEPT ![id] = stock]
            /\ Ends(p, "BookAdded", id)
    /\ UNCHANGED <<members, borrow_records, now>>

\* line 41: write the stock given on the row with this book_id; returns the
\* rows updated (none when there is no such book)
UpdateBookStock(p, b, new_stock) ==
    /\ pc[p] = "idle"
    /\ books' = UpdateStock(b, new_stock)
    /\ Ends(p, "StockUpdated", IF b \in DOMAIN books THEN 1 ELSE 0)
    /\ UNCHANGED <<members, borrow_records, now, stock0, texts>>

\* ---------------------------------------------------- search_books (51-67)
\* lines 52-66, first turn of the loop: strip the keyword, [] when nothing is
\* left, else the query on title
SearchTitle(p, keyword) ==
    /\ pc[p] = "idle"
    /\ IF Strip(keyword) = <<>>
       THEN Ends(p, "Found", <<>>)
       ELSE Goes(p, SearchFrame(Strip(keyword),
                                Collected(<<>>, Rows("title", Strip(keyword)))),
                 "search_author")
    /\ UNCHANGED <<members, books, borrow_records, now, stock0, texts>>

\* lines 59-66, second turn: the query on author
SearchAuthor(p) ==
    /\ pc[p] = "search_author"
    /\ Goes(p, SearchFrame(frame[p].keyword,
                           Collected(frame[p].results, Rows("author", frame[p].keyword))),
            "search_category")
    /\ UNCHANGED <<members, books, borrow_records, now, stock0, texts>>

\* lines 59-67, third turn: the query on category; return results
SearchCategory(p) ==
    /\ pc[p] = "search_category"
    /\ Ends(p, "Found", Collected(frame[p].results, Rows("category", frame[p].keyword)))
    /\ UNCHANGED <<members, books, borrow_records, now, stock0, texts>>

\* -------------------------------------------------------- list_books (38)
\* line 38: the rows of table books (by book_id)
ListBooks(p) ==
    /\ pc[p] = "idle"
    /\ Ends(p, "Books", SelectSeq([i \in 1..NBooks |-> i], LAMBDA b : b \in DOMAIN books))
    /\ UNCHANGED <<members, books, borrow_records, now, stock0, texts>>

\* ----------------------------------------------------- reports (107-128)
\* lines 109-110: the rows of rpc("top_books")
ReportTopBooks(p) ==
    /\ pc[p] = "idle"
    /\ Ends(p, "TopBooks", TopBooks)
    /\ UNCHANGED <<members, books, borrow_records, now, stock0, texts>>

\* lines 115-121: the open records borrowed more than 14 days ago
ReportOverdue(p) ==
    /\ pc[p] = "idle"
    /\ Ends(p, "Overdue", OverdueRows)
    /\ UNCHANGED <<members, books, borrow_records, now, stock0, texts>>

\* lines 125-126: the rows of rpc("member_borrow_count")
ReportMemberBorrows(p) ==
    /\ pc[p] = "idle"
    /\ Ends(p, "MemberBorrows", MemberBorrowCount)
    /\ UNCHANGED <<members, books, borrow_records, now, stock0, texts>>

\* datetime.utcnow() (lines 97, 115) and the store's clock move on
Tick ==
    /\ now + ClockStep <= MaxDay
    /\ now' = now + ClockStep
    /\ last' = Returns("none", 0)
    /\ UNCHANGED <<members, books, borrow_records, pc, frame, stock0, texts>>

\* --------------------------------------------------------------- faults
\* lines 111-112: the rpc of report_top_books raises; except returns []
ReportTopBooksFault(p) ==
    /\ pc[p] = "idle"
    /\ Ends(p, "TopBooks", <<>>)
    /\ UNCHANGED <<members, books, borrow_records, now, stock0, texts>>

\* lines 116-120: the query of report_overdue raises; no try around it
ReportOverdueFault(p) ==
    /\ pc[p] = "idle"
    /\ Ends(p, "Raised", 0)
    /\ UNCHANGED <<members, books, borrow_records, now, stock0, texts>>

\* lines 127-128: the rpc of report_member_borrows raises; except returns []
ReportMemberBorrowsFault(p) ==
    /\ pc[p] = "idle"
    /\ Ends(p, "MemberBorrows", <<>>)
    /\ UNCHANGED <<members, books, borrow_records, now, stock0, texts>>

\* line 60: a query of search_books raises; no try around it
SearchFault(p) ==
    /\ pc[p] \in {"search_author", "search_category"}
    /\ Ends(p, "Raised", 0)
    /\ UNCHANGED <<members, books, borrow_records, now, stock0, texts>>

\* lines 17, 23, 35, 41, 60, 73, 89, 27, 44: the first store call of a function
\* is outside any try;
\* when it raises (a store fault, or .single() finding no row) the exception
\* leaves the function
LookupFault(p) ==
    /\ pc[p] = "idle"
    /\ Ends(p, "Raised", 0)
    /\ UNCHANGED <<members, books, borrow_records, now, stock0, texts>>

\* lines 30 and 47: the delete raises; no try around it
DeleteFault(p) ==
    /\ pc[p] \in {"delete_member", "delete_book"}
    /\ Ends(p, "Raised", 0)
    /\ UNCHANGED <<members, books, borrow_records, now, stock0, texts>>

\* lines 85-86 and 102-103: a store call inside the try raises; the function
\* returns {"error": "Transaction failed: ..."} and undoes nothing
TransactionFault(p) ==
    /\ pc[p] \in {"borrow_update", "borrow_insert", "return_close", "return_stock", "return_update"}
    /\ Ends(p, "TransactionFailed", 0)
    /\ UNCHANGED <<members, books, borrow_records, now, stock0, texts>>

\* ----------------------------------------------------------- main (137-225)
\* a function called from the loop: when it raises, the exception leaves
\* main() through the loop and the process ends; else the result is printed
\* and the loop goes on
Loops == running' = (last'.tag # "Raised")

\* lines 164, 181-182, 186, 191, 195, 199-200, 204: int() of what was typed
\* raises ValueError, outside any try
MenuBadNumber ==
    /\ running /\ pc[Caller] = "idle"
    /\ \E typed \in Typed : ~IsNumeral(Strip(typed))
    /\ last' = Returns("ValueError", 0)
    /\ running' = FALSE
    /\ UNCHANGED <<members, books, borrow_records, now, pc, frame, stock0, texts>>

\* lines 207-218: choice 11 with a report choice other than 1, 2, 3
MenuNoReport ==
    /\ running /\ pc[Caller] = "idle"
    /\ last' = Returns("ReportsMenu", 0)
    /\ UNCHANGED <<members, books, borrow_records, now, pc, frame, stock0, texts, running>>

\* lines 220-222: choice 12, "Goodbye!" and break
MenuExit ==
    /\ running /\ pc[Caller] = "idle"
    /\ last' = Returns("Goodbye", 0)
    /\ running' = FALSE
    /\ UNCHANGED <<members, books, borrow_records, now, pc, frame, stock0, texts>>

\* lines 224-225: any other choice, "Invalid choice"
MenuInvalid ==
    /\ running /\ pc[Caller] = "idle"
    /\ last' = Returns("InvalidChoice", 0)
    /\ UNCHANGED <<members, books, borrow_records, now, pc, frame, stock0, texts, running>>

\* the numbers int() makes of what was typed
Numbers == {IntOf(Strip(typed)) : typed \in {t \in Typed : IsNumeral(Strip(t))}}

\* ------------------------------------------------------- specifications
\* The history variables take no part in any function.  `returned` is kept
\* where callers run borrows and returns without faults (SpecBook, SpecRT),
\* `held` where callers work on different books (SpecRT); elsewhere they stay
\* as they start.
history == <<held, returned>>

\* what no function of the store layer touches: the history and the CLI's loop
aside == <<history, running>>

\* a return_book call reports success for its record
Reports(p) == returned' = returned \cup {frame[p].record_id}

\* Every function and every fault, any number of callers, interleaved at
\* every store call.
Next ==
    \E p \in Procs :
        \/ (\E m \in Members, b \in Books : Room(b, MaxRecords) /\ BorrowSelect(p, m, b))
                /\ UNCHANGED aside
        \/ BorrowUpdate(p) /\ UNCHANGED aside
        \/ BorrowInsert(p) /\ UNCHANGED aside
        \/ (\E r \in RecordIds : ReturnSelect(p, r)) /\ UNCHANGED aside
        \/ ReturnClose(p) /\ UNCHANGED aside
        \/ ReturnStock(p) /\ UNCHANGED aside
        \/ ReturnUpdate(p) /\ UNCHANGED aside
        \/ (\E m \in Members : DeleteMemberCheck(p, m)) /\ UNCHANGED aside
        \/ DeleteMemberDelete(p) /\ UNCHANGED aside
        \/ (\E b \in Books : DeleteBookCheck(p, b)) /\ UNCHANGED aside
        \/ DeleteBookDelete(p) /\ UNCHANGED aside
        \/ LookupFault(p) /\ UNCHANGED aside
        \/ DeleteFault(p) /\ UNCHANGED aside
        \/ TransactionFault(p) /\ UNCHANGED aside

Spec == Init /\ [][Next]_vars

\* A single caller: every function and every fault, one call at a time.
NextSeq ==
    \/ (\E m \in Members, b \in Books : Room(b, SeqRecords) /\ BorrowSelect(Caller, m, b))
            /\ UNCHANGED aside
    \/ BorrowUpdate(Caller) /\ UNCHANGED aside
    \/ BorrowInsert(Caller) /\ UNCHANGED aside
    \/ (\E r \in RecordIds : ReturnSelect(Caller, r)) /\ UNCHANGED aside
    \/ ReturnClose(Caller) /\ UNCHANGED aside
    \/ ReturnStock(Caller) /\ UNCHANGED aside
    \/ ReturnUpdate(Caller) /\ UNCHANGED aside
    \/ (\E m \in Members : DeleteMemberCheck(Caller, m)) /\ UNCHANGED aside
    \/ DeleteMemberDelete(Caller) /\ UNCHANGED aside
    \/ (\E b \in Books : DeleteBookCheck(Caller, b)) /\ UNCHANGED aside
    \/ DeleteBookDelete(Caller) /\ UNCHANGED aside
    \/ LookupFault(Caller) /\ UNCHANGED aside
    \/ DeleteFault(Caller) /\ UNCHANGED aside
    \/ TransactionFault(Caller) /\ UNCHANGED aside

SpecSeq == Init /\ [][NextSeq]_vars

\* Callers racing on one book: every caller borrows the same book for the
\* same member and returns its records, interleaved at every store call, no
\* store fault.
RaceBook == CHOOSE b \in Books : TRUE
RaceMember == CHOOSE m \in Members : TRUE

NextBook ==
    \E p \in Procs :
        \/ Room(RaceBook, MaxRecords) /\ BorrowSelect(p, RaceMember, RaceBook)
                /\ UNCHANGED aside
        \/ BorrowUpdate(p) /\ UNCHANGED aside
        \/ BorrowInsert(p) /\ UNCHANGED aside
        \/ (\E r \in DOMAIN borrow_records : ReturnSelect(p, r)) /\ UNCHANGED aside
        \/ ReturnClose(p) /\ UNCHANGED aside
        \/ ReturnStock(p) /\ UNCHANGED aside
        \/ ReturnUpdate(p) /\ Reports(p) /\ UNCHANGED <<held, running>>

SpecBook == Init /\ [][NextBook]_vars

\* Callers working on different books: caller p borrows book p and returns
\* records of book p, no store fault.  Here a caller remembers the record its
\* borrow returned, and the stock that borrow found, as long as its next call
\* is the return of that record.
Pinned == {p \in Procs : p \in Books}

Pins(p, h) == held' = [held EXCEPT ![p] = h]

NextRT ==
    \E p \in Pinned :
        \/ (\E m \in Members : Room(p, MaxRecords) /\ BorrowSelect(p, m, p))
                /\ Pins(p, NoHeld) /\ UNCHANGED <<returned, running>>
        \/ BorrowUpdate(p) /\ UNCHANGED aside
        \/ BorrowInsert(p)
             /\ Pins(p, [rec |-> Len(borrow_records) + 1, pre |-> frame[p].stock])
             /\ UNCHANGED <<returned, running>>
        \/ \E r \in DOMAIN borrow_records :
             /\ borrow_records[r].book_id = p
             /\ ReturnSelect(p, r)
             /\ Pins(p, IF r = held[p].rec THEN held[p] ELSE NoHeld)
             /\ UNCHANGED <<returned, running>>
        \/ ReturnClose(p) /\ UNCHANGED aside
        \/ ReturnStock(p) /\ UNCHANGED aside
        \/ ReturnUpdate(p) /\ Reports(p) /\ UNCHANGED <<held, running>>

SpecRT == Init /\ [][NextRT]_vars

\* A single caller running borrow_book and return_book one at a time, no store
\* fault, no other function.
NextLoans ==
    \/ (\E m \in Members, b \in Books : Room(b, MaxRecords) /\ BorrowSelect(Caller, m, b))
            /\ UNCHANGED aside
    \/ BorrowUpdate(Caller) /\ UNCHANGED aside
    \/ BorrowInsert(Caller) /\ UNCHANGED aside
    \/ (\E r \in RecordIds : ReturnSelect(Caller, r)) /\ UNCHANGED aside
    \/ ReturnClose(Caller) /\ UNCHANGED aside
    \/ ReturnStock(Caller) /\ UNCHANGED aside
    \/ ReturnUpdate(Caller) /\ UNCHANGED aside

SpecLoans == Init /\ [][NextLoans]_vars

\* A single caller running search_books over a catalogue, store faults included.
NextSearch ==
    \/ (\E keyword \in Keywords : SearchTitle(Caller, keyword)) /\ UNCHANGED aside
    \/ SearchAuthor(Caller) /\ UNCHANGED aside
    \/ SearchCategory(Caller) /\ UNCHANGED aside
    \/ LookupFault(Caller) /\ UNCHANGED aside
    \/ SearchFault(Caller) /\ UNCHANGED aside

SpecSearch == InitSearch /\ [][NextSearch]_vars

\* A single caller borrowing for one member, returning, and running the reports
\* as the days pass; the only store faults are those of the reports.
NextReports ==
    \/ (\E b \in Books : Room(b, MaxRecords) /\ BorrowSelect(Caller, RaceMember, b))
            /\ UNCHANGED aside
    \/ BorrowUpdate(Caller) /\ UNCHANGED aside
    \/ BorrowInsert(Caller) /\ UNCHANGED aside
    \/ (\E r \in DOMAIN borrow_records : ReturnSelect(Caller, r)) /\ UNCHANGED aside
    \/ ReturnClose(Caller) /\ UNCHANGED aside
    \/ ReturnStock(Caller) /\ UNCHANGED aside
    \/ ReturnUpdate(Caller) /\ UNCHANGED aside
    \/ Tick /\ UNCHANGED aside
    \/ ReportTopBooks(Caller) /\ UNCHANGED aside
    \/ ReportOverdue(Caller) /\ UNCHANGED aside
    \/ ReportMemberBorrows(Caller) /\ UNCHANGED aside
    \/ ReportTopBooksFault(Caller) /\ UNCHANGED aside
    \/ ReportOverdueFault(Caller) /\ UNCHANGED aside
    \/ ReportMemberBorrowsFault(Caller) /\ UNCHANGED aside

SpecReports == Init /\ [][NextReports]_vars

\* The CLI: one process in the loop of main(), each choice of the menu with
\* what the user types, every function it calls at each of its store calls,
\* and every store fault.
NextCli ==
    \/ running /\ AddMember(Caller) /\ Loops /\ UNCHANGED history
    \/ running
          /\ \E title \in Words, author \in Words, category \in Words, stock \in Numbers :
                AddBook(Caller, title, author, category, stock)
          /\ Loops /\ UNCHANGED history
    \/ running
          /\ \E keyword \in Typed : SearchTitle(Caller, keyword)
          /\ Loops /\ UNCHANGED history
    \/ running /\ SearchAuthor(Caller) /\ Loops /\ UNCHANGED history
    \/ running /\ SearchCategory(Caller) /\ Loops /\ UNCHANGED history
    \/ running /\ ListBooks(Caller) /\ Loops /\ UNCHANGED history
    \/ running
          /\ \E b \in Numbers, new_stock \in Numbers : UpdateBookStock(Caller, b, new_stock)
          /\ Loops /\ UNCHANGED history
    \/ running
          /\ \E m \in Numbers : UpdateMember(Caller, m)
          /\ Loops /\ UNCHANGED history
    \/ running
          /\ \E b \in Numbers : DeleteBookCheck(Caller, b)
          /\ Loops /\ UNCHANGED history
    \/ running /\ DeleteBookDelete(Caller) /\ Loops /\ UNCHANGED history
    \/ running
          /\ \E m \in Numbers : DeleteMemberCheck(Caller, m)
          /\ Loops /\ UNCHANGED history
    \/ running /\ DeleteMemberDelete(Caller) /\ Loops /\ UNCHANGED history
    \/ running
          /\ \E m \in Numbers, b \in Numbers :
                Room(b, SeqRecords) /\ BorrowSelect(Caller, m, b)
          /\ Loops /\ UNCHANGED history
    \/ running /\ BorrowUpdate(Caller) /\ Loops /\ UNCHANGED history
    \/ running /\ BorrowInsert(Caller) /\ Loops /\ UNCHANGED history
    \/ running
          /\ \E r \in Numbers : ReturnSelect(Caller, r)
          /\ Loops /\ UNCHANGED history
    \/ running /\ ReturnClose(Caller) /\ Loops /\ UNCHANGED history
    \/ running /\ ReturnStock(Caller) /\ Loops /\ UNCHANGED history
    \/ running /\ ReturnUpdate(Caller) /\ Loops /\ UNCHANGED history
    \/ running /\ ReportTopBooks(Caller) /\ Loops /\ UNCHANGED history
    \/ running /\ ReportOverdue(Caller) /\ Loops /\ UNCHANGED history
    \/ running /\ ReportMemberBorrows(Caller) /\ Loops /\ UNCHANGED history
    \/ running /\ LookupFault(Caller) /\ Loops /\ UNCHANGED history
    \/ running /\ SearchFault(Caller) /\ Loops /\ UNCHANGED history
    \/ running /\ DeleteFault(Caller) /\ Loops /\ UNCHANGED history
    \/ running /\ TransactionFault(Caller) /\ Loops /\ UNCHANGED history
    \/ running /\ ReportTopBooksFault(Caller) /\ Loops /\ UNCHANGED history
    \/ running /\ ReportMemberBorrowsFault(Caller) /\ Loops /\ UNCHANGED history
    \/ MenuBadNumber /\ UNCHANGED history
    \/ MenuNoReport /\ UNCHANGED history
    \/ MenuExit /\ UNCHANGED history
    \/ MenuInvalid /\ UNCHANGED history

SpecCli == Init /\ [][NextCli]_vars

\* ======================================================================
\* Properties
\* ======================================================================
\* the vocabulary of the specification, stated on the tables alone
Open(r) == r \in DOMAIN borrow_records /\ borrow_records[r].return_date = NoDate
Closed(r) == r \in DOMAIN borrow_records /\ borrow_records[r].return_date # NoDate
OpenLoansOfBook(b) == {r \in DOMAIN borrow_records : Open(r) /\ borrow_records[r].book_id = b}
OpenLoansOfMember(m) == {r \in DOMAIN borrow_records : Open(r) /\ borrow_records[r].member_id = m}
InFlightOn(b) == {p \in Procs : pc[p] # "idle" /\ frame[p].book_id = b}

\* C1 (as claimed): with callers racing on one book and no store fault, whenever
\* no borrow or return on a book is in flight, the book's stock plus its number
\* of open records is the stock it started with; two concurrent borrows of a
\* book with stock 1 cannot both succeed.
C1_NoLostUpdate ==
    \A b \in DOMAIN books :
        InFlightOn(b) = {} =>
            books[b] + Cardinality(OpenLoansOfBook(b)) = stock0[b]

\* C2 (as claimed): when the insert of borrow_book fails after the stock was
\* written, borrow_book returns its error with the stock back at the value it
\* had before the call and with no new record.
C2_BorrowRollsBack ==
    [][LET p == Caller IN
         (pc[p] = "borrow_insert" /\ TransactionFault(p)) =>
            /\ books'[frame[p].book_id] = frame[p].stock
            /\ borrow_records' = borrow_records]_vars

\* C3 (as claimed): when the stock read or the stock write of return_book fails
\* after return_date was written, return_book returns its error with the
\* record open again and the stock unchanged.
C3_ReturnRollsBack ==
    [][LET p == Caller IN
         (pc[p] \in {"return_stock", "return_update"} /\ TransactionFault(p)) =>
            /\ Open(frame[p].record_id)'
            /\ books' = books]_vars

\* C4: a record that is closed is closed in every later state; and return_book
\* of a record that is closed returns "Book already returned" and leaves the
\* books, the members and the records as they were.
C4_ClosedStaysClosed ==
    [][/\ \A r \in DOMAIN borrow_records : Closed(r) => Closed(r)'
       /\ \A p \in Procs, r \in RecordIds :
            (Closed(r) /\ ReturnSelect(p, r)) =>
                /\ pc'[p] = "idle"
                /\ last'.tag = "AlreadyReturned"
                /\ UNCHANGED <<members, books, borrow_records>>]_vars

\* C4 happens: a closed record, and a return_book of it answered "already returned"
C4_Witness ==
    /\ \E r \in DOMAIN borrow_records : Closed(r)
    /\ last.tag = "AlreadyReturned"

\* C5 (as claimed): of the return_book calls running on one record, one
\* succeeds: return_date is written once, on the open record, and no call
\* reports the return of a record another call reported returned.
C5_ReturnedOnce ==
    [][\A p \in Procs :
         /\ ReturnClose(p) => Open(frame[p].record_id)
         /\ ReturnUpdate(p) => frame[p].record_id \notin returned]_vars

\* C6: with callers racing on one book, borrows and returns interleaved at
\* every store call, no book's stock is negative in any state.
C6_StockNonNegative == \A b \in DOMAIN books : books[b] >= 0

\* C6 happens: a borrow has written stock 0 and has not inserted its record yet,
\* while another caller is inside a call too
C6_Witness ==
    \E p \in Procs, q \in Procs :
        /\ p # q
        /\ pc[p] = "borrow_insert" /\ books[frame[p].book_id] = 0
        /\ pc[q] # "idle"

\* C7 (as claimed): no open record references a book or a member that is not
\* in the store.
C7_NoOpenLoanOfDeleted ==
    \A r \in DOMAIN borrow_records :
        Open(r) =>
            /\ borrow_records[r].book_id \in DOMAIN books
            /\ borrow_records[r].member_id \in members

\* C8: for a single caller, delete_book / delete_member returns its "cannot
\* delete" error, removing nothing, exactly when an open record references the
\* book / member; otherwise it goes on to the delete, no open record references
\* the entity when the delete runs, and the delete takes exactly that entity
\* out of the store.  A closed record never blocks.
C8_DeleteGuard ==
    /\ [](LET p == Caller IN
            /\ pc[p] = "delete_book" => OpenLoansOfBook(frame[p].book_id) = {}
            /\ pc[p] = "delete_member" => OpenLoansOfMember(frame[p].member_id) = {})
    /\ [][LET p == Caller IN
            /\ \A b \in Books :
                 DeleteBookCheck(p, b) =>
                    /\ (pc'[p] = "idle" /\ last'.tag = "BookHasLoans")
                            <=> OpenLoansOfBook(b) # {}
                    /\ OpenLoansOfBook(b) = {}
                            => (pc'[p] = "delete_book" /\ frame'[p].book_id = b)
                    /\ UNCHANGED <<members, books, borrow_records>>
            /\ \A m \in Members :
                 DeleteMemberCheck(p, m) =>
                    /\ (pc'[p] = "idle" /\ last'.tag = "MemberHasLoans")
                            <=> OpenLoansOfMember(m) # {}
                    /\ OpenLoansOfMember(m) = {}
                            => (pc'[p] = "delete_member" /\ frame'[p].member_id = m)
                    /\ UNCHANGED <<members, books, borrow_records>>
            /\ DeleteBookDelete(p) =>
                    /\ last'.tag = "BookDeleted"
                    /\ DOMAIN books' = DOMAIN books \ {frame[p].book_id}
                    /\ \A b \in DOMAIN books' : books'[b] = books[b]
                    /\ UNCHANGED <<members, borrow_records>>
            /\ DeleteMemberDelete(p) =>
                    /\ last'.tag = "MemberDeleted"
                    /\ members' = members \ {frame[p].member_id}
                    /\ UNCHANGED <<books, borrow_records>>]_vars

\* C8 happens: a book was deleted although a closed record references it
C8_Witness ==
    /\ last.tag = "BookDeleted"
    /\ \E r \in DOMAIN borrow_records :
            Closed(r) /\ borrow_records[r].book_id \notin DOMAIN books

\* C9: when callers work on different books, a caller that borrowed a book and
\* then returned the record that borrow gave it finds the book's stock at the
\* value it had before the borrow; and a step of a call on one book changes
\* neither the stock nor the records of any other book.
RecordsOfBook(recs, b) == {<<r, recs[r]>> : r \in {i \in DOMAIN recs : recs[i].book_id = b}}

C9_RoundTrip ==
    /\ [](\A p \in Pinned :
            (pc[p] = "idle" /\ held[p].rec \in returned) => books[p] = held[p].pre)
    /\ [][\A p \in Procs :
            (pc'[p] # pc[p] \/ frame'[p] # frame[p]) =>
                LET b == IF frame[p].op # "none" THEN frame[p].book_id
                         ELSE frame'[p].book_id
                IN  \A c \in Books \ {b} :
                        /\ books'[c] = books[c]
                        /\ RecordsOfBook(borrow_records', c)
                                = RecordsOfBook(borrow_records, c)]_vars

\* C9 happens: a caller has borrowed and returned its record while another
\* caller is in the middle of a return on another book
C9_Witness ==
    \E p \in Pinned, q \in Pinned :
        /\ p # q
        /\ pc[p] = "idle" /\ held[p].rec \in returned /\ held[p].pre > 0
        /\ pc[q] \in {"return_close", "return_stock", "return_update"}

\* C10: for a single caller without a store fault, borrow_book of a book in the
\* store with stock s > 0 writes stock s - 1, inserts exactly one record, open,
\* for that member and book, and returns it; borrow_book of a book with stock
\* <= 0 (or of no book) returns "Book not available" and changes nothing.
C10_BorrowEffect ==
    [][LET p == Caller IN
         /\ \A m \in Members, b \in Books :
              BorrowSelect(p, m, b) =>
                 /\ IF b \in DOMAIN books /\ books[b] > 0
                    THEN /\ pc'[p] = "borrow_update"
                         /\ frame'[p].member_id = m /\ frame'[p].book_id = b
                    ELSE pc'[p] = "idle" /\ last'.tag = "NotAvailable"
                 /\ UNCHANGED <<members, books, borrow_records>>
         /\ BorrowUpdate(p) =>
                 /\ books[frame[p].book_id] > 0
                 /\ books' = [books EXCEPT ![frame[p].book_id] = @ - 1]
                 /\ pc'[p] = "borrow_insert"
                 /\ UNCHANGED <<members, borrow_records>>
         /\ BorrowInsert(p) =>
                 /\ last' = Returns("Borrowed", Len(borrow_records) + 1)
                 /\ Len(borrow_records') = Len(borrow_records) + 1
                 /\ SubSeq(borrow_records', 1, Len(borrow_records)) = borrow_records
                 /\ borrow_records'[Len(borrow_records')].return_date = NoDate
                 /\ borrow_records'[Len(borrow_records')].member_id = frame[p].member_id
                 /\ borrow_records'[Len(borrow_records')].book_id = frame[p].book_id
                 /\ UNCHANGED <<members, books>>]_vars

\* C10 happens: a book that started with stock n > 0 has n open records and
\* stock 0, and the borrow after them was answered "not available"
C10_Witness ==
    /\ last.tag = "NotAvailable"
    /\ \E b \in DOMAIN books :
            /\ stock0[b] > 0 /\ books[b] = 0
            /\ Cardinality(OpenLoansOfBook(b)) = stock0[b]

\* C11: a call that ends with a precondition error ("Book not available",
\* "Record not found", "Book already returned", "cannot delete") made one store
\* call, a read, and the members, the books with their stock and the records
\* are as they were before the call.
PreconditionErrors ==
    {"NotAvailable", "RecordNotFound", "AlreadyReturned", "MemberHasLoans", "BookHasLoans"}

C11_PreconditionErrors ==
    [][LET p == Caller IN
         (pc'[p] = "idle" /\ last'.tag \in PreconditionErrors) =>
            /\ pc[p] = "idle"
            /\ UNCHANGED <<members, books, borrow_records>>]_vars

\* C11 happens: delete_member was refused while the member holds an open record
\* of a book whose stock was taken
C11_Witness ==
    /\ last.tag = "MemberHasLoans"
    /\ \E r \in DOMAIN borrow_records :
            /\ Open(r)
            /\ borrow_records[r].book_id \in DOMAIN books
            /\ books[borrow_records[r].book_id] < stock0[borrow_records[r].book_id]

\* C18: for a single caller running borrow_book and return_book one at a time
\* without a store fault, in every state, between the two writes of a call
\* included, each book's stock is at most the stock it started with minus its
\* number of open records.
C18_NeverOverstated ==
    \A b \in DOMAIN books :
        books[b] <= stock0[b] - Cardinality(OpenLoansOfBook(b))

\* C18 happens: between the two writes of a return, the record is closed and
\* the stock is not yet back
C18_Witness ==
    /\ pc[Caller] = "return_update"
    /\ Closed(frame[Caller].record_id)
    /\ books[frame[Caller].book_id]
            < stock0[frame[Caller].book_id]
                - Cardinality(OpenLoansOfBook(frame[Caller].book_id))

\* C19 (as claimed): borrow_book inserts a record only for a member and a book
\* that are in the store at the insert; and borrow_book with a member_id that
\* matches no member ends without a record and without a stock write.
C19_ReferencesExist ==
    [][LET p == Caller IN
         /\ BorrowInsert(p) =>
                /\ frame[p].member_id \in members
                /\ frame[p].book_id \in DOMAIN books
         /\ \A m \in Members, b \in Books :
                (m \notin members /\ BorrowSelect(p, m, b)) =>
                    /\ pc'[p] = "idle"
                    /\ UNCHANGED <<books, borrow_records>>]_vars

\* C15 (as claimed): search_books of an empty or whitespace-only keyword
\* returns []; of any other keyword, the books whose title, author or category
\* contains the stripped keyword, case-insensitively, and no other book, each
\* once, the books matching on title first, then those matching on author
\* only, then those matching on category only.
Folded(str) == [i \in DOMAIN str |-> Lower(str[i])]

Contains(str, keyword) ==
    \E i \in 0..(Len(str) - Len(keyword)) :
        SubSeq(Folded(str), i + 1, i + Len(keyword)) = Folded(keyword)

FirstMatch(b, keyword) ==
    IF Contains(texts[b].title, keyword) THEN 1
    ELSE IF Contains(texts[b].author, keyword) THEN 2
    ELSE IF Contains(texts[b].category, keyword) THEN 3
    ELSE 0

C15_SearchShape ==
    [][LET p == Caller IN
         /\ \A keyword \in Keywords :
                (SearchTitle(p, keyword) /\ Strip(keyword) = <<>>) =>
                    pc'[p] = "idle" /\ last' = Returns("Found", <<>>)
         /\ SearchCategory(p) =>
                LET keyword == frame[p].keyword
                    found == last'.value
                IN  /\ last'.tag = "Found"
                    /\ Range(found) = {b \in DOMAIN texts : FirstMatch(b, keyword) # 0}
                    /\ \A i, j \in DOMAIN found : found[i] = found[j] => i = j
                    /\ \A i, j \in DOMAIN found :
                            i < j => FirstMatch(found[i], keyword)
                                        <= FirstMatch(found[j], keyword)]_vars

\* C13 (as claimed): a report whose store call or rpc fails returns [], and no
\* report changes the members, the books or the records.
C13_ReportsDegrade ==
    [][LET p == Caller IN
         /\ (ReportTopBooksFault(p) \/ ReportOverdueFault(p) \/ ReportMemberBorrowsFault(p))
                => (last'.tag \in {"TopBooks", "Overdue", "MemberBorrows"}
                        /\ last'.value = <<>>)
         /\ (ReportTopBooks(p) \/ ReportOverdue(p) \/ ReportMemberBorrows(p))
                => UNCHANGED <<members, books, borrow_records>>]_vars

\* C14 (as claimed): for every thresholdDays, the overdue report is exactly the
\* open records whose borrow_date is before now - thresholdDays.
Thresholds == {7, 14, 21}

C12_NoFaultEscapes == last.tag # "Raised"

\* C16 (as claimed): the process ends only by choice 12; after an error of a
\* function, a store fault or input that is no number the loop goes on.
C16_ExitOnly == ~running => last.tag = "Goodbye"

\* C17 (as claimed): add_book and update_book_stock called with a stock below
\* zero return a validation error and leave the store as it was.
C17_NegativeStockRejected ==
    [][LET p == Caller IN
         /\ \A title \in Words, author \in Words, category \in Words, stock \in Numbers :
                (stock < 0 /\ AddBook(p, title, author, category, stock)) =>
                    /\ last'.tag = "ValidationError"
                    /\ UNCHANGED <<members, books, borrow_records>>
         /\ \A b \in Numbers, new_stock \in Numbers :
                (new_stock < 0 /\ UpdateBookStock(p, b, new_stock)) =>
                    /\ last'.tag = "ValidationError"
                    /\ UNCHANGED <<members, books, borrow_records>>]_vars

====
